---- MODULE Spec2Model ----
(***************************************************************************)
(* WebSocket <-> program bridges of use_cli_apps.                          *)
(*                                                                         *)
(*   server_master.cjs        filtered bridge: strip, split into lines,    *)
(*                            classify, batch, flush on a 150 ms timer     *)
(*   server_clean_output.cjs  PTY bridge, strip-ansi on every chunk        *)
(*   server_clean_output.js   pipe bridge, regex stripper on every chunk   *)
(*   unnamed/part_000         PTY bridge, raw chunks                       *)
(*                                                                         *)
(* Text is a sequence of characters; a character is a short string.  The   *)
(* non-ASCII glyphs and the fixed phrases of the classifier's patterns are *)
(* written as named tokens.                                                *)
(***************************************************************************)
EXTENDS Integers, Sequences, FiniteSets, TLC

\* ------------------------------------------------------------ characters
LF   == "LF"      \* \n
CR   == "CR"      \* \r
TAB  == "TAB"     \* \t
SP   == "SP"      \* the space
ESC  == "ESC"     \* \x1B
BEL  == "BEL"     \* \x07
MARK == "MARK"    \* the content marker U+2726
HR   == "HR"      \* the horizontal-rule character U+2500
SPIN == "SPIN"    \* the spinner frame U+280B
SPIN2 == "SPIN2"  \* the spinner frame U+2819

\* The fixed phrases the classifier's regular expressions look for, each one
\* token.  A phrase begins and ends with a word character.
PROMPT  == "Type your message or @path/to/file"
NOSANDBOX == "no sandbox"
CODERMODEL == "coder-model"
LUCKY   == "I'm Feeling Lucky"
STATUS  == "Just a moment"
STATUS_UP == "JUST A MOMENT"
MEDIA   == "../media/"

Phrases == {PROMPT, NOSANDBOX, CODERMODEL, LUCKY, STATUS, STATUS_UP}

Letters == {"a", "m"}
Digits  == {"1"}

\* JavaScript's white space (String.prototype.trim, the regex class \s).
IsSpace(c) == c \in {SP, TAB, LF, CR}

\* The regex class \w, as far as \b needs it: a phrase token counts as a word
\* character on both of its sides.
IsWordChar(c) == c \in Letters \cup Digits \cup Phrases

\* The regex flag i: the character a case-insensitive match compares.
Fold(c) == IF c = STATUS_UP THEN STATUS ELSE c

\* ------------------------------------------------------------ strings
RECURSIVE TrimStart(_)
TrimStart(s) ==
  IF s # <<>> /\ IsSpace(Head(s)) THEN TrimStart(Tail(s)) ELSE s

RECURSIVE TrimEnd(_)
TrimEnd(s) ==
  IF s # <<>> /\ IsSpace(s[Len(s)]) THEN TrimEnd(SubSeq(s, 1, Len(s) - 1)) ELSE s

Trim(s) == TrimEnd(TrimStart(s))

StartsWith(s, p) == Len(p) <= Len(s) /\ SubSeq(s, 1, Len(p)) = p

\* s.split('\n'): always at least one fragment, the last one unterminated.
RECURSIVE Split(_)
Split(s) ==
  IF \E i \in 1..Len(s) : s[i] = LF
  THEN LET i == CHOOSE k \in 1..Len(s) :
                  s[k] = LF /\ \A j \in 1..(k - 1) : s[j] # LF
       IN <<SubSeq(s, 1, i - 1)>> \o Split(SubSeq(s, i + 1, Len(s)))
  ELSE <<s>>

\* lines.join('\n')
RECURSIVE Join(_)
Join(ls) ==
  IF ls = <<>> THEN <<>>
  ELSE IF Len(ls) = 1 THEN ls[1]
  ELSE ls[1] \o <<LF>> \o Join(Tail(ls))

\* s.replace(/\r/g, '')
RECURSIVE RemoveCR(_)
RemoveCR(s) ==
  IF s = <<>> THEN <<>>
  ELSE IF Head(s) = CR THEN RemoveCR(Tail(s))
  ELSE <<Head(s)>> \o RemoveCR(Tail(s))

Run(c, n) == [i \in 1..n |-> c]

\* All sequences over S of length at most n.
SeqsUpTo(S, n) == UNION {[1..k -> S] : k \in 0..n}

\* ------------------------------------------------------------ classifier
RulerLen == 16

SPINNER_PREFIXES == {SPIN, SPIN2}

isSpinnerLine(line) == \E p \in SPINNER_PREFIXES : StartsWith(line, <<p, SP>>)

\* isRulerLine without its trim().
isRulerLineNoTrim(line) == StartsWith(line, Run(HR, RulerLen))

isRulerLine(line) == StartsWith(Trim(line), Run(HR, RulerLen))

\* regex.test(line) for a regex that is one fixed phrase, flag i.
Includes(line, phrase) == \E i \in 1..Len(line) : Fold(line[i]) = phrase

\* \bphrase\b at position i of line.
WordAt(line, i, phrase) ==
  /\ Fold(line[i]) = phrase
  /\ i = 1 \/ ~IsWordChar(line[i - 1])
  /\ i = Len(line) \/ ~IsWordChar(line[i + 1])

isPromptHint(line) == Includes(line, PROMPT)

\* /\bno sandbox\b.*\bcoder-model\b/i from position `from` on.
SandboxThenModel(line, from) ==
  \E i \in from..Len(line) : \E j \in (i + 1)..Len(line) :
     WordAt(line, i, NOSANDBOX) /\ WordAt(line, j, CODERMODEL)

isWorkspaceFooter(line) ==
  \/ \E k \in 1..Len(line) : line[k] = MEDIA /\ SandboxThenModel(line, k + 1)
  \/ SandboxThenModel(line, 1)

isFeelingLucky(line) == Includes(line, LUCKY)

isStatusVerb(line) == Includes(line, STATUS)

IsBlank(line) == \A i \in 1..Len(line) : IsSpace(line[i])

isDecorative(line) ==
  \/ isSpinnerLine(line)
  \/ isRulerLine(line)
  \/ isPromptHint(line)
  \/ isWorkspaceFooter(line)
  \/ isFeelingLucky(line)
  \/ isStatusVerb(line)
  \/ IsBlank(line)

isAssistantLine(line) == StartsWith(Trim(line), <<MARK, SP>>)

\* line.replace(/^MARK\s+/, ''): anchored at the start of the line as given.
StripMarker(line) ==
  IF Len(line) >= 2 /\ line[1] = MARK /\ IsSpace(line[2])
  THEN TrimStart(Tail(line))
  ELSE line

\* The loop body with the marker test ahead of the decorative test.
ProcessLineMarkerFirst(buf, line) ==
  IF isAssistantLine(line)
  THEN LET msg == TrimEnd(StripMarker(line))
       IN IF msg # <<>> THEN Append(buf, msg) ELSE buf
  ELSE IF isDecorative(line) THEN buf
  ELSE LET cleaned == TrimEnd(line)
       IN IF Len(cleaned) > 0 THEN Append(buf, cleaned) ELSE buf

\* The body of onData's loop for one line: the batch after it.
ProcessLine(buf, line) ==
  IF isDecorative(line) THEN buf
  ELSE IF isAssistantLine(line)
  THEN LET msg == TrimEnd(StripMarker(line))
       IN IF msg # <<>> THEN Append(buf, msg) ELSE buf
  ELSE LET cleaned == TrimEnd(line)
       IN IF Len(cleaned) > 0 THEN Append(buf, cleaned) ELSE buf

RECURSIVE ProcessLines(_, _)
ProcessLines(buf, lines) ==
  IF lines = <<>> THEN buf
  ELSE ProcessLines(ProcessLine(buf, Head(lines)), Tail(lines))

\* ------------------------------------------------------------ strippers
\* The number of consecutive characters of s from position i on that are in S.
RECURSIVE RunLenIn(_, _, _)
RunLenIn(s, i, S) ==
  IF i <= Len(s) /\ s[i] \in S THEN 1 + RunLenIn(s, i + 1, S) ELSE 0

Drop(s, n) == SubSeq(s, n + 1, Len(s))

\* [\x00-\x1F\x7F]
ControlChars == {LF, CR, TAB, ESC, BEL}

CsiParamChars == Digits \cup {";", "?"}

\* ANSI_REGEX of server_clean_output.js at the head of s: the length of the
\* match of the first alternative that matches, 0 when none does.
AnsiRegexMatch(s) ==
  LET k == RunLenIn(s, 3, CsiParamChars)
      bel == RunLenIn(s, 3, {c \in {s[i] : i \in 1..Len(s)} : c # BEL})
  IN  IF Len(s) >= 2 /\ s[1] = ESC /\ s[2] = "["
         /\ Len(s) >= 3 + k /\ s[3 + k] \in Letters
      THEN 3 + k
      ELSE IF Len(s) >= 2 /\ s[1] = ESC /\ s[2] = "]" /\ Len(s) >= 3 + bel
      THEN 3 + bel
      ELSE IF Len(s) >= 3 /\ s[1] = ESC /\ s[2] \in {"(", ")", "#"}
              /\ s[3] \in Digits \cup Letters
      THEN 3
      ELSE IF s # <<>> /\ s[1] \in ControlChars
      THEN 1
      ELSE 0

\* s.replace with ANSI_REGEX lacking its g flag: the first match only.
RECURSIVE stripAnsiRegexFirst(_)
stripAnsiRegexFirst(s) ==
  IF s = <<>> THEN <<>>
  ELSE LET n == AnsiRegexMatch(s)
       IN IF n > 0 THEN Drop(s, n)
          ELSE <<Head(s)>> \o stripAnsiRegexFirst(Tail(s))

\* s.replace(ANSI_REGEX, '')
RECURSIVE stripAnsiRegex(_)
stripAnsiRegex(s) ==
  IF s = <<>> THEN <<>>
  ELSE LET n == AnsiRegexMatch(s)
       IN IF n > 0 THEN stripAnsiRegex(Drop(s, n))
          ELSE <<Head(s)>> \o stripAnsiRegex(Tail(s))

\* The strip-ansi package (ansi-regex 6):
\*   ESC [[\]()#;?]* ( ( (;C+)* | [a-zA-Z\d]+(;C*)* )? BEL
\*                   | ( \d{1,4}(;\d{0,4})* )? [\dA-PR-TZcf-nq-uy=><~] )
LibIntroChars == {"[", "]", "(", ")", "#", ";", "?"}
LibBodyChars  == Letters \cup Digits \cup
                 {"-", "/", "#", "&", ".", ":", "=", "?", "%", "@", "~", "_"}
LibFinalChars == Digits \cup {"m", "=", ">", "<", "~"}

\* (;\d{0,4})*
RECURSIVE IsLibParamTail(_)
IsLibParamTail(t) ==
  \/ t = <<>>
  \/ /\ t[1] = ";"
     /\ LET d == RunLenIn(t, 2, Digits)
        IN d <= 4 /\ IsLibParamTail(Drop(t, 1 + d))

\* ( \d{1,4}(;\d{0,4})* )?
IsLibParams(t) ==
  \/ t = <<>>
  \/ LET d == RunLenIn(t, 1, Digits)
     IN d >= 1 /\ d <= 4 /\ IsLibParamTail(Drop(t, d))

\* (;C+)*
RECURSIVE IsLibGroups(_)
IsLibGroups(t) ==
  \/ t = <<>>
  \/ /\ t[1] = ";"
     /\ LET d == RunLenIn(t, 2, LibBodyChars)
        IN d >= 1 /\ IsLibGroups(Drop(t, 1 + d))

\* ( (;C+)* | [a-zA-Z\d]+(;C*)* )?
IsLibOscBody(t) ==
  \/ IsLibGroups(t)
  \/ /\ t # <<>>
     /\ t[1] \in Letters \cup Digits
     /\ \A i \in 1..Len(t) : t[i] \in LibBodyChars \cup {";"}
     /\ LET d == RunLenIn(t, 1, Letters \cup Digits)
        IN d = Len(t) \/ t[d + 1] = ";"

\* The ends (lengths) of the matches of the pattern at the head of s that take
\* b introducer characters.
LibEnds(s, b) ==
  {e \in (b + 2)..Len(s) :
     \/ s[e] = BEL /\ IsLibOscBody(SubSeq(s, b + 2, e - 1))
     \/ s[e] \in LibFinalChars /\ IsLibParams(SubSeq(s, b + 2, e - 1))}

\* The match the regex engine returns at the head of s: the most introducer
\* characters first, then the BEL alternative, then the longest parameters.
LibMatch(s) ==
  IF s = <<>> \/ s[1] # ESC THEN 0
  ELSE LET bs == {b \in 0..RunLenIn(s, 2, LibIntroChars) : LibEnds(s, b) # {}}
       IN IF bs = {} THEN 0
          ELSE LET b == CHOOSE x \in bs : \A y \in bs : y <= x
                   es == LibEnds(s, b)
                   bels == {e \in es : s[e] = BEL
                              /\ IsLibOscBody(SubSeq(s, b + 2, e - 1))}
               IN IF bels # {}
                  THEN CHOOSE e \in bels : \A f \in bels : e <= f
                  ELSE CHOOSE e \in es : \A f \in es : f <= e

\* stripAnsi of the strip-ansi package: string.replace(ansiRegex(), '')
RECURSIVE stripAnsi(_)
stripAnsi(s) ==
  IF s = <<>> THEN <<>>
  ELSE LET n == LibMatch(s)
       IN IF n > 0 THEN stripAnsi(Drop(s, n))
          ELSE <<Head(s)>> \o stripAnsi(Tail(s))

normalize(chunk) == RemoveCR(stripAnsi(chunk))

\* ------------------------------------------------------------ state
Sessions == {"A", "B"}

Variants == {"master", "clean_cjs", "clean_js", "raw"}

\* What the exit event carries, as a template literal prints it; "null" is
\* the absent code.
ExitCodes == {"0", "2", "null"}

VARIABLES
  variant,     \* which server file runs
  clients,     \* the connections that will be made
  todo,        \* per session: the output the program has still to emit
  inbox,       \* per session: the messages the client has still to send
  ws,          \* per session: "NONE" before the connection, then ws.readyState
  proc,        \* per session: "none" | "running" | "exited"
  exitCode,    \* per session: "none", then the code the exit event carried
  buffer,      \* per session: the pending batch
  flushTimer,  \* per session: 0 for null, else the Timeout object it holds
  armed,       \* per session: the Timeout objects that are scheduled
  out,         \* per session: the calls made on ws, in order
  written,     \* per session: the writes made to the program's input, in order
  kills,       \* per session: proc at each kill('SIGTERM') call
  delivered,   \* per session: the program output handed to the data handler
  kept,        \* per session: every line pushed to the batch, in order
  line,        \* classifier run: the line given
  pushed,      \* classifier run: the batch after the line
  phase,       \* pure-function run: "off" | "line" | "done" | "text" | "stripped" | "again"
  input,       \* stripper run: the text given
  once,        \* stripper run: the text stripped
  twice        \* stripper run: the stripped text stripped again

vars == <<variant, clients, todo, inbox, ws, proc, exitCode, buffer, flushTimer, armed,
          out, written, kills, delivered, kept, line, pushed, phase, input, once, twice>>

classifyVars == <<line, pushed, phase>>
stripVars == <<input, once, twice>>
envVars == <<variant, clients>>
procVars == <<proc, exitCode>>

\* ws.send(JSON.stringify({type, data}))
Send(type, data) == [op |-> "send", type |-> type, data |-> data]

\* ws.close(1000, reason)
Close(reason) == [op |-> "close", type |-> "1000", data |-> reason]

\* `exit:${exitCode ?? 0}`
ExitReason(code) == <<"exit:", IF code \in {"null", "undefined"} THEN "0" ELSE code>>

\* `exit:${code}`
ExitReasonJs(code) == <<"exit:", code>>

\* flush() without its first line: an empty batch is sent too.
flushNoGuard(buf, readyState, calls) ==
  [buffer |-> <<>>,
   out |-> IF readyState = "OPEN"
           THEN Append(calls, Send("stdout", Join(buf)))
           ELSE calls]

\* flush() without `buffer = []`: the batch is sent and kept.
flushKeep(buf, readyState, calls) ==
  IF Len(buf) = 0 THEN [buffer |-> buf, out |-> calls]
  ELSE [buffer |-> buf,
        out |-> IF readyState = "OPEN"
                THEN Append(calls, Send("stdout", Join(buf)))
                ELSE calls]

\* flush() without the readyState test: the batch is sent on any socket.
flushAnyState(buf, readyState, calls) ==
  IF Len(buf) = 0 THEN [buffer |-> buf, out |-> calls]
  ELSE [buffer |-> <<>>, out |-> Append(calls, Send("stdout", Join(buf)))]

\* flush(): the batch and the calls on ws after it.
flush(buf, readyState, calls) ==
  IF Len(buf) = 0 THEN [buffer |-> buf, out |-> calls]
  ELSE [buffer |-> <<>>,
        out |-> IF readyState = "OPEN"
                THEN Append(calls, Send("stdout", Join(buf)))
                ELSE calls]

\* scheduleFlush() without `if (flushTimer) return`: every call sets a timeout.
scheduleFlushNoGuard(timer, pending, id) ==
  [flushTimer |-> id, armed |-> pending \cup {id}]

\* scheduleFlush(): the timer handle and the scheduled timeouts after it; id
\* is the Timeout object a setTimeout call made now returns.
scheduleFlush(timer, pending, id) ==
  IF timer # 0 THEN [flushTimer |-> timer, armed |-> pending]
  ELSE [flushTimer |-> id, armed |-> pending \cup {id}]

\* ws.close() on an open connection starts the closing handshake.
AfterCloseCall(readyState) == IF readyState = "OPEN" THEN "CLOSING" ELSE readyState

\* ------------------------------------------------------------ all bridges
\* wss.on('connection'): spawn the program, an empty batch, no timer.
Connect(s) ==
  /\ s \in clients
  /\ ws[s] = "NONE"
  /\ ws' = [ws EXCEPT ![s] = "OPEN"]
  /\ proc' = [proc EXCEPT ![s] = "running"]
  /\ buffer' = [buffer EXCEPT ![s] = <<>>]
  /\ flushTimer' = [flushTimer EXCEPT ![s] = 0]
  /\ UNCHANGED <<envVars, todo, inbox, exitCode, armed, out, written, kills,
                 delivered, kept, classifyVars, stripVars>>

\* ------------------------------------------------------------ server_master.cjs
\* p.onData calling flush() where it calls scheduleFlush().
OnDataEager(s) ==
  /\ variant = "master"
  /\ proc[s] = "running"
  /\ \E n \in 1..Len(todo[s]) :
       LET data == SubSeq(todo[s], 1, n)
           lines == Split(normalize(data))
           buf == ProcessLines(buffer[s], lines)
           f == flush(buf, ws[s], out[s])
       IN /\ todo' = [todo EXCEPT ![s] = Drop(todo[s], n)]
          /\ delivered' = [delivered EXCEPT ![s] = @ \o data]
          /\ buffer' = [buffer EXCEPT ![s] = f.buffer]
          /\ out' = [out EXCEPT ![s] = f.out]
          /\ kept' = [kept EXCEPT ![s] = @ \o Drop(buf, Len(buffer[s]))]
  /\ UNCHANGED <<envVars, inbox, ws, procVars, flushTimer, armed, written,
                 kills, classifyVars, stripVars>>

\* p.onData with `buffer` declared outside the connection handler: one batch
\* for all sessions.
OnDataShared(s) ==
  /\ variant = "master"
  /\ proc[s] = "running"
  /\ \E n \in 1..Len(todo[s]) :
       LET data == SubSeq(todo[s], 1, n)
           lines == Split(normalize(data))
           buf == ProcessLines(buffer[s], lines)
           t == scheduleFlush(flushTimer[s], armed[s], Len(delivered[s]) + n)
       IN /\ todo' = [todo EXCEPT ![s] = Drop(todo[s], n)]
          /\ delivered' = [delivered EXCEPT ![s] = @ \o data]
          /\ buffer' = [x \in Sessions |-> buf]
          /\ kept' = [kept EXCEPT ![s] = @ \o Drop(buf, Len(buffer[s]))]
          /\ flushTimer' = [flushTimer EXCEPT ![s] = t.flushTimer]
          /\ armed' = [armed EXCEPT ![s] = t.armed]
  /\ UNCHANGED <<envVars, inbox, ws, procVars, out, written, kills, classifyVars, stripVars>>

\* p.onData: normalize, split, classify each line, schedule a flush.
OnData(s) ==
  /\ variant = "master"
  /\ proc[s] = "running"
  /\ \E n \in 1..Len(todo[s]) :
       LET data == SubSeq(todo[s], 1, n)
           lines == Split(normalize(data))
           buf == ProcessLines(buffer[s], lines)
           t == scheduleFlush(flushTimer[s], armed[s], Len(delivered[s]) + n)
       IN /\ todo' = [todo EXCEPT ![s] = Drop(todo[s], n)]
          /\ delivered' = [delivered EXCEPT ![s] = @ \o data]
          /\ buffer' = [buffer EXCEPT ![s] = buf]
          /\ kept' = [kept EXCEPT ![s] = @ \o Drop(buf, Len(buffer[s]))]
          /\ flushTimer' = [flushTimer EXCEPT ![s] = t.flushTimer]
          /\ armed' = [armed EXCEPT ![s] = t.armed]
  /\ UNCHANGED <<envVars, inbox, ws, procVars, out, written, kills, classifyVars, stripVars>>

\* The timeout callback without `flushTimer = null`.
TimerFireKeepHandle(s) ==
  /\ variant = "master"
  /\ \E id \in armed[s] : armed' = [armed EXCEPT ![s] = @ \ {id}]
  /\ LET f == flush(buffer[s], ws[s], out[s])
     IN /\ buffer' = [buffer EXCEPT ![s] = f.buffer]
        /\ out' = [out EXCEPT ![s] = f.out]
  /\ UNCHANGED <<envVars, todo, inbox, ws, procVars, flushTimer, written, kills,
                 delivered, kept, classifyVars, stripVars>>

\* The timeout callback: flushTimer = null; flush().
TimerFire(s) ==
  /\ variant = "master"
  /\ \E id \in armed[s] : armed' = [armed EXCEPT ![s] = @ \ {id}]
  /\ LET f == flush(buffer[s], ws[s], out[s])
     IN /\ buffer' = [buffer EXCEPT ![s] = f.buffer]
        /\ out' = [out EXCEPT ![s] = f.out]
  /\ flushTimer' = [flushTimer EXCEPT ![s] = 0]
  /\ UNCHANGED <<envVars, todo, inbox, ws, procVars, written, kills, delivered,
                 kept, classifyVars, stripVars>>

\* p.onExit without its flush(), as in the unfiltered bridges.
OnExitNoFlush(s) ==
  /\ variant = "master"
  /\ proc[s] = "running"
  /\ \E code \in ExitCodes :
       /\ out' = [out EXCEPT ![s] = Append(@, Close(ExitReason(code)))]
       /\ exitCode' = [exitCode EXCEPT ![s] = code]
  /\ proc' = [proc EXCEPT ![s] = "exited"]
  /\ ws' = [ws EXCEPT ![s] = AfterCloseCall(ws[s])]
  /\ UNCHANGED <<envVars, todo, inbox, buffer, flushTimer, armed, written,
                 kills, delivered, kept, classifyVars, stripVars>>

\* p.onExit: flush(); ws.close(1000, `exit:${exitCode ?? 0}`).
OnExit(s) ==
  /\ variant = "master"
  /\ proc[s] = "running"
  /\ \E code \in ExitCodes :
       LET f == flush(buffer[s], ws[s], out[s])
       IN /\ buffer' = [buffer EXCEPT ![s] = f.buffer]
          /\ out' = [out EXCEPT ![s] = Append(f.out, Close(ExitReason(code)))]
          /\ exitCode' = [exitCode EXCEPT ![s] = code]
  /\ proc' = [proc EXCEPT ![s] = "exited"]
  /\ ws' = [ws EXCEPT ![s] = AfterCloseCall(ws[s])]
  /\ UNCHANGED <<envVars, todo, inbox, flushTimer, armed, written, kills,
                 delivered, kept, classifyVars, stripVars>>

\* ws.on('message') writing the message without the '\r'.
OnMessageNoCR(s) ==
  /\ variant = "master"
  /\ ws[s] \in {"OPEN", "CLOSING"}
  /\ inbox[s] # <<>>
  /\ written' = [written EXCEPT ![s] = Append(@, Head(inbox[s]))]
  /\ inbox' = [inbox EXCEPT ![s] = Tail(@)]
  /\ UNCHANGED <<envVars, todo, ws, procVars, buffer, flushTimer, armed, out,
                 kills, delivered, kept, classifyVars, stripVars>>

\* ws.on('message'): p.write(msg.toString() + '\r').
OnMessage(s) ==
  /\ variant = "master"
  /\ ws[s] \in {"OPEN", "CLOSING"}
  /\ inbox[s] # <<>>
  /\ written' = [written EXCEPT ![s] = Append(@, Head(inbox[s]) \o <<CR>>)]
  /\ inbox' = [inbox EXCEPT ![s] = Tail(@)]
  /\ UNCHANGED <<envVars, todo, ws, procVars, buffer, flushTimer, armed, out,
                 kills, delivered, kept, classifyVars, stripVars>>

\* ws.on('close'): p.kill('SIGTERM'); if (flushTimer) clearTimeout(flushTimer).
OnWsClose(s) ==
  /\ variant = "master"
  /\ ws[s] \in {"OPEN", "CLOSING"}
  /\ ws' = [ws EXCEPT ![s] = "CLOSED"]
  /\ kills' = [kills EXCEPT ![s] = Append(@, proc[s])]
  /\ armed' = [armed EXCEPT ![s] = @ \ {flushTimer[s]}]
  /\ UNCHANGED <<envVars, todo, inbox, procVars, buffer, flushTimer, out, written,
                 delivered, kept, classifyVars, stripVars>>

\* ------------------------------------------------------------ PTY bridges
\* server_clean_output.cjs, p.onData: ws.send of the stripped chunk.
OnDataClean(s) ==
  /\ variant = "clean_cjs"
  /\ proc[s] = "running"
  /\ \E n \in 1..Len(todo[s]) :
       LET data == SubSeq(todo[s], 1, n)
       IN /\ todo' = [todo EXCEPT ![s] = Drop(todo[s], n)]
          /\ delivered' = [delivered EXCEPT ![s] = @ \o data]
          /\ out' = [out EXCEPT ![s] = Append(@, Send("stdout", stripAnsi(data)))]
  /\ UNCHANGED <<envVars, inbox, ws, procVars, buffer, flushTimer, armed, written,
                 kills, kept, classifyVars, stripVars>>

\* unnamed/part_000, p.onData: ws.send of the chunk as it is.
OnDataRaw(s) ==
  /\ variant = "raw"
  /\ proc[s] = "running"
  /\ \E n \in 1..Len(todo[s]) :
       LET data == SubSeq(todo[s], 1, n)
       IN /\ todo' = [todo EXCEPT ![s] = Drop(todo[s], n)]
          /\ delivered' = [delivered EXCEPT ![s] = @ \o data]
          /\ out' = [out EXCEPT ![s] = Append(@, Send("stdout", data))]
  /\ UNCHANGED <<envVars, inbox, ws, procVars, buffer, flushTimer, armed, written,
                 kills, kept, classifyVars, stripVars>>

\* p.onExit of both: ws.close(1000, `exit:${exitCode ?? 0}`).
OnExitPty(s) ==
  /\ variant \in {"clean_cjs", "raw"}
  /\ proc[s] = "running"
  /\ \E code \in ExitCodes :
       /\ out' = [out EXCEPT ![s] = Append(@, Close(ExitReason(code)))]
       /\ exitCode' = [exitCode EXCEPT ![s] = code]
  /\ proc' = [proc EXCEPT ![s] = "exited"]
  /\ ws' = [ws EXCEPT ![s] = AfterCloseCall(ws[s])]
  /\ UNCHANGED <<envVars, todo, inbox, buffer, flushTimer, armed, written,
                 kills, delivered, kept, classifyVars, stripVars>>

\* ws.on('message') of both: p.write(msg.toString() + '\r').
OnMessagePty(s) ==
  /\ variant \in {"clean_cjs", "raw"}
  /\ ws[s] \in {"OPEN", "CLOSING"}
  /\ inbox[s] # <<>>
  /\ written' = [written EXCEPT ![s] = Append(@, Head(inbox[s]) \o <<CR>>)]
  /\ inbox' = [inbox EXCEPT ![s] = Tail(@)]
  /\ UNCHANGED <<envVars, todo, ws, procVars, buffer, flushTimer, armed, out,
                 kills, delivered, kept, classifyVars, stripVars>>

\* ws.on('close') of both: p.kill('SIGTERM').
OnWsClosePty(s) ==
  /\ variant \in {"clean_cjs", "raw"}
  /\ ws[s] \in {"OPEN", "CLOSING"}
  /\ ws' = [ws EXCEPT ![s] = "CLOSED"]
  /\ kills' = [kills EXCEPT ![s] = Append(@, proc[s])]
  /\ UNCHANGED <<envVars, todo, inbox, procVars, buffer, flushTimer, armed, out,
                 written, delivered, kept, classifyVars, stripVars>>

\* ------------------------------------------------------------ server_clean_output.js
\* child.stdout.on('data') and child.stderr.on('data'): ws.send of the chunk
\* stripped by ANSI_REGEX, typed by its stream.
OnStdio(s) ==
  /\ variant = "clean_js"
  /\ proc[s] = "running"
  /\ \E n \in 1..Len(todo[s]) : \E stream \in {"stdout", "stderr"} :
       LET data == SubSeq(todo[s], 1, n)
       IN /\ todo' = [todo EXCEPT ![s] = Drop(todo[s], n)]
          /\ delivered' = [delivered EXCEPT ![s] = @ \o data]
          /\ out' = [out EXCEPT ![s] = Append(@, Send(stream, stripAnsiRegex(data)))]
  /\ UNCHANGED <<envVars, inbox, ws, procVars, buffer, flushTimer, armed, written,
                 kills, kept, classifyVars, stripVars>>

\* child.on('close'): ws.close(1000, `exit:${code}`).
OnChildClose(s) ==
  /\ variant = "clean_js"
  /\ proc[s] = "running"
  /\ \E code \in ExitCodes :
       /\ out' = [out EXCEPT ![s] = Append(@, Close(ExitReasonJs(code)))]
       /\ exitCode' = [exitCode EXCEPT ![s] = code]
  /\ proc' = [proc EXCEPT ![s] = "exited"]
  /\ ws' = [ws EXCEPT ![s] = AfterCloseCall(ws[s])]
  /\ UNCHANGED <<envVars, todo, inbox, buffer, flushTimer, armed, written,
                 kills, delivered, kept, classifyVars, stripVars>>

\* ws.on('message'): child.stdin.write(msg + '\n').
OnMessageJs(s) ==
  /\ variant = "clean_js"
  /\ ws[s] \in {"OPEN", "CLOSING"}
  /\ inbox[s] # <<>>
  /\ written' = [written EXCEPT ![s] = Append(@, Head(inbox[s]) \o <<LF>>)]
  /\ inbox' = [inbox EXCEPT ![s] = Tail(@)]
  /\ UNCHANGED <<envVars, todo, ws, procVars, buffer, flushTimer, armed, out,
                 kills, delivered, kept, classifyVars, stripVars>>

\* ws.on('close'): child.kill('SIGTERM').
OnWsCloseJs(s) ==
  /\ variant = "clean_js"
  /\ ws[s] \in {"OPEN", "CLOSING"}
  /\ ws' = [ws EXCEPT ![s] = "CLOSED"]
  /\ kills' = [kills EXCEPT ![s] = Append(@, proc[s])]
  /\ UNCHANGED <<envVars, todo, inbox, procVars, buffer, flushTimer, armed, out,
                 written, delivered, kept, classifyVars, stripVars>>

\* ------------------------------------------------------------ specifications
MaxText == 3
MaxTextMulti == 1
MaxTail == 2

\* The characters of the program output the bridges are run on.
BridgeChars == {"a", LF, SP, CR, MARK}

Inputs == {<<"a">>}

\* With two sessions each program and each client has a character of its own,
\* so that a text tells whose it is.
OwnChar == [s \in Sessions |-> IF s = "A" THEN "a" ELSE "m"]

\* The state before any connection; texts[s] and inboxes[s] are the outputs
\* the program of s may have to emit and the message sequences its client may
\* have to send.
Idle(texts, inboxes) ==
  /\ variant \in Variants
  /\ \E f \in [clients -> UNION {texts[s] : s \in clients}] :
       /\ \A s \in clients : f[s] \in texts[s]
       /\ todo = [s \in Sessions |-> IF s \in clients THEN f[s] ELSE <<>>]
  /\ \E f \in [clients -> UNION {inboxes[s] : s \in clients}] :
       /\ \A s \in clients : f[s] \in inboxes[s]
       /\ inbox = [s \in Sessions |-> IF s \in clients THEN f[s] ELSE <<>>]
  /\ ws = [s \in Sessions |-> "NONE"]
  /\ proc = [s \in Sessions |-> "none"]
  /\ exitCode = [s \in Sessions |-> "none"]
  /\ buffer = [s \in Sessions |-> <<>>]
  /\ flushTimer = [s \in Sessions |-> 0]
  /\ armed = [s \in Sessions |-> {}]
  /\ out = [s \in Sessions |-> <<>>]
  /\ written = [s \in Sessions |-> <<>>]
  /\ kills = [s \in Sessions |-> <<>>]
  /\ delivered = [s \in Sessions |-> <<>>]
  /\ kept = [s \in Sessions |-> <<>>]

\* One connection, any of the four servers.
Init ==
  /\ clients = {"A"}
  /\ Idle([s \in Sessions |-> SeqsUpTo(BridgeChars, MaxText)],
          [s \in Sessions |-> {<<>>} \cup {<<m>> : m \in Inputs}])
  /\ line = <<>>
  /\ pushed = <<>>
  /\ phase = "off"
  /\ input = <<>>
  /\ once = <<>>
  /\ twice = <<>>

\* Two concurrent connections to the filtered bridge.
InitMulti ==
  /\ clients = Sessions
  /\ variant = "master"
  /\ Idle([s \in Sessions |-> SeqsUpTo({OwnChar[s]}, MaxTextMulti)],
          [s \in Sessions |-> {<<>>, << <<OwnChar[s]>> >>}])
  /\ line = <<>>
  /\ pushed = <<>>
  /\ phase = "off"
  /\ input = <<>>
  /\ once = <<>>
  /\ twice = <<>>

Next ==
  \E s \in Sessions :
    \/ Connect(s)
    \/ OnData(s)
    \/ TimerFire(s)
    \/ OnExit(s)
    \/ OnMessage(s)
    \/ OnWsClose(s)
    \/ OnDataClean(s)
    \/ OnDataRaw(s)
    \/ OnExitPty(s)
    \/ OnMessagePty(s)
    \/ OnWsClosePty(s)
    \/ OnStdio(s)
    \/ OnChildClose(s)
    \/ OnMessageJs(s)
    \/ OnWsCloseJs(s)

\* The handlers of server_master.cjs.
NextMaster ==
  \E s \in Sessions :
    \/ Connect(s)
    \/ OnData(s)
    \/ TimerFire(s)
    \/ OnExit(s)
    \/ OnMessage(s)
    \/ OnWsClose(s)

Spec == Init /\ [][Next]_vars

SpecMulti == InitMulti /\ [][NextMaster]_vars

\* ------------------------------------------------------------ classifier runs
\* The characters of the lines the classifier is run on.
ClassifyChars == {"a", SP, TAB, MARK, SPIN, SPIN2, PROMPT, LUCKY, STATUS,
                  STATUS_UP, NOSANDBOX, CODERMODEL}

\* Lengths of the run of HR a line holds: none, short ones, and the lengths
\* around the ruler's.
RunLengths == {0, 1, 10, RulerLen - 1, RulerLen, RulerLen + 1}

Leads == {<<>>, <<SP>>}
Markers == {<<>>, <<MARK, SP>>}

\* leading space, marker, a run of HR, any short tail
RunLines ==
  {l \o m \o Run(HR, n) \o t :
     l \in Leads, m \in Markers, n \in RunLengths,
     t \in SeqsUpTo(ClassifyChars, MaxTail)}

\* leading space, marker, then the footer's two phrases with text around them
FooterLines ==
  {l \o m \o a \o <<NOSANDBOX>> \o b \o <<CODERMODEL>> \o c :
     l \in Leads, m \in Markers,
     a \in {<<>>, <<MEDIA>>, <<MEDIA, "a", SP>>, <<"a">>},
     b \in {<<>>, <<SP>>, <<SP, "a", SP>>},
     c \in {<<>>, <<SP>>, <<"a">>}}

InitClassify ==
  /\ clients = {}
  /\ variant = "master"
  /\ Idle([s \in Sessions |-> {<<>>}], [s \in Sessions |-> {<<>>}])
  /\ line \in RunLines \cup FooterLines
  /\ pushed = <<>>
  /\ phase = "line"
  /\ input = <<>>
  /\ once = <<>>
  /\ twice = <<>>

\* One pass of onData's loop body over the line, on an empty batch.
Classify ==
  /\ phase = "line"
  /\ pushed' = ProcessLine(<<>>, line)
  /\ phase' = "done"
  /\ UNCHANGED <<envVars, todo, inbox, ws, procVars, buffer, flushTimer, armed,
                 out, written, kills, delivered, kept, line, stripVars>>

NextClassify == Classify

SpecClassify == InitClassify /\ [][NextClassify]_vars

\* ------------------------------------------------------------ input relay
MaxInputs == 2
MaxTextRelay == 1

\* The messages a client sends: msg.toString() of each.
RelayInputs == {<<"a">>, <<"m", SP>>}

\* One connection whose client sends up to MaxInputs messages.
InitRelay ==
  /\ clients = {"A"}
  /\ Idle([s \in Sessions |-> SeqsUpTo({"a"}, MaxTextRelay)],
          [s \in Sessions |-> SeqsUpTo(RelayInputs, MaxInputs)])
  /\ line = <<>>
  /\ pushed = <<>>
  /\ phase = "off"
  /\ input = <<>>
  /\ once = <<>>
  /\ twice = <<>>

SpecRelay == InitRelay /\ [][Next]_vars

\* ------------------------------------------------------------ control sequences
MaxTextAnsi == 3

\* Program output with a CSI sequence in it: ESC [ m, and plain text.
AnsiChars == {ESC, "[", "m", "a"}

\* One connection, any of the four servers, output over AnsiChars.
InitAnsi ==
  /\ clients = {"A"}
  /\ Idle([s \in Sessions |-> SeqsUpTo(AnsiChars, MaxTextAnsi)],
          [s \in Sessions |-> {<<>>} \cup {<<m>> : m \in Inputs}])
  /\ line = <<>>
  /\ pushed = <<>>
  /\ phase = "off"
  /\ input = <<>>
  /\ once = <<>>
  /\ twice = <<>>

SpecAnsi == InitAnsi /\ [][Next]_vars

\* ------------------------------------------------------------ regex stripper
MaxStrip == 4

\* The characters ANSI_REGEX tells apart, and a line feed among the control
\* bytes.
StripChars == {ESC, "[", "]", "(", BEL, "1", "a", ";", "?", LF}

\* No connection: stripAnsi of server_clean_output.js on one text.
InitStrip ==
  /\ clients = {}
  /\ variant = "clean_js"
  /\ Idle([s \in Sessions |-> {<<>>}], [s \in Sessions |-> {<<>>}])
  /\ line = <<>>
  /\ pushed = <<>>
  /\ phase = "text"
  /\ input \in SeqsUpTo(StripChars, MaxStrip)
  /\ once = <<>>
  /\ twice = <<>>

\* stripAnsi(input)
Strip ==
  /\ phase = "text"
  /\ once' = stripAnsiRegex(input)
  /\ phase' = "stripped"
  /\ UNCHANGED <<envVars, todo, inbox, ws, procVars, buffer, flushTimer, armed,
                 out, written, kills, delivered, kept, line, pushed, input, twice>>

\* stripAnsi of the result
StripAgain ==
  /\ phase = "stripped"
  /\ twice' = stripAnsiRegex(once)
  /\ phase' = "again"
  /\ UNCHANGED <<envVars, todo, inbox, ws, procVars, buffer, flushTimer, armed,
                 out, written, kills, delivered, kept, line, pushed, input, once>>

NextStrip == Strip \/ StripAgain

SpecStrip == InitStrip /\ [][NextStrip]_vars

\* ------------------------------------------------------------ teardown
\* What the event loop and the socket do without the program or the client
\* acting: a scheduled timeout fires, a closing handshake ends with the close
\* event.  The program exits, and the client sends or disconnects, when they
\* choose to.
Fair ==
  \A s \in Sessions :
    /\ WF_vars(TimerFire(s))
    /\ WF_vars(ws[s] = "CLOSING"
                 /\ (OnWsClose(s) \/ OnWsClosePty(s) \/ OnWsCloseJs(s)))

SpecLive == InitRelay /\ [][Next]_vars /\ Fair

\* ------------------------------------------------------------ pending output
MaxTextFlush == 3

\* Content and line feeds: chunks of several lines, blank lines.
FlushChars == {"a", LF}

\* One connection to the filtered bridge.
InitFlush ==
  /\ clients = {"A"}
  /\ variant = "master"
  /\ Idle([s \in Sessions |-> SeqsUpTo(FlushChars, MaxTextFlush)],
          [s \in Sessions |-> {<<>>} \cup {<<m>> : m \in Inputs}])
  /\ line = <<>>
  /\ pushed = <<>>
  /\ phase = "off"
  /\ input = <<>>
  /\ once = <<>>
  /\ twice = <<>>

SpecFlush == InitFlush /\ [][NextMaster]_vars /\ Fair

\* ------------------------------------------------------------ properties
IsSend(c) == c.op = "send"
IsClose(c) == c.op = "close"

\* The ws.send calls among the calls, in order.
Sends(calls) == SelectSeq(calls, IsSend)

\* The lines of the messages sent, in order.
RECURSIVE SentLines(_)
SentLines(calls) ==
  IF calls = <<>> THEN <<>>
  ELSE (IF IsSend(Head(calls)) THEN Split(Head(calls).data) ELSE <<>>)
       \o SentLines(Tail(calls))

HasLF(s) == \E i \in 1..Len(s) : s[i] = LF

IsPrefix(p, s) == Len(p) <= Len(s) /\ SubSeq(s, 1, Len(p)) = p

\* The lines kept when text arrives as one chunk on an empty batch.
KeptWhole(text) == ProcessLines(<<>>, Split(normalize(text)))

\* C1: line reassembly.  In the filtered bridge, once the output delivered so
\* far holds a line terminator, the lines kept from it are those kept when the
\* same text arrives as one chunk, however it was cut into chunks.
C1_LineReassembly ==
  \A s \in Sessions :
    (variant = "master" /\ HasLF(delivered[s]))
      => kept[s] = KeptWhole(delivered[s])

\* C2: no output is lost at exit.  In the filtered bridge, the exit of the
\* program with code C while the connection is open and the batch is not
\* empty makes exactly two calls on the connection, a send of the batch joined
\* by newlines and then the close with reason exit:C (exit:0 for an absent
\* code); and once the program has exited no step sends anything more.
C2_ExitFlush ==
  [][\A s \in Sessions :
       variant = "master" =>
         /\ (proc[s] = "running" /\ proc'[s] = "exited"
               /\ ws[s] = "OPEN" /\ buffer[s] # <<>>)
              => /\ out'[s] = out[s] \o
                      <<Send("stdout", Join(buffer[s])),
                        Close(<<"exit:", IF exitCode'[s] = "null" THEN "0"
                                          ELSE exitCode'[s]>>)>>
                 /\ buffer'[s] = <<>>
         /\ proc[s] = "exited" => Sends(out'[s]) = Sends(out[s])]_vars

\* The timer armed before the exit has fired after it: pending line "a", exit
\* code 2, one message "a", the close, and nothing from the timer.
C2_Witness ==
  /\ variant = "master"
  /\ exitCode["A"] = "2"
  /\ ws["A"] = "CLOSING"
  /\ delivered["A"] = <<"a">>
  /\ out["A"] = <<Send("stdout", <<"a">>), Close(<<"exit:", "2">>)>>
  /\ flushTimer["A"] = 0

\* C3: coalescing.  In the filtered bridge, a step that leaves the debounce
\* timer scheduled and is not the program's exit sends nothing, whatever the
\* number of chunks that arrive; the step at which the timer expires sends at
\* most one message, the whole batch.
C3_Coalescing ==
  [][\A s \in Sessions :
       variant = "master" =>
         /\ (armed[s] # {} /\ armed'[s] # {} /\ proc'[s] = proc[s]) => out'[s] = out[s]
         /\ delivered'[s] # delivered[s] => out'[s] = out[s]
         /\ (armed[s] # {} /\ armed'[s] = {})
              => \/ out'[s] = out[s]
                 \/ out'[s] = Append(out[s], Send("stdout", Join(buffer[s])))]_vars

\* Two chunks arrived in one window and left in one message.
C3_Witness ==
  /\ variant = "master"
  /\ delivered["A"] = <<"a", "a">>
  /\ kept["A"] = << <<"a">>, <<"a">> >>
  /\ out["A"] = <<Send("stdout", <<"a", LF, "a">>)>>
  /\ proc["A"] = "running"

\* C4: in the filtered bridge no message is ever sent with empty data.
C4_NonEmptyPayload ==
  \A s \in Sessions :
    variant = "master" =>
      \A i \in 1..Len(out[s]) : IsSend(out[s][i]) => out[s][i].data # <<>>

\* The timer has expired on an empty batch, with the connection open: output
\* arrived, nothing of it was kept, and nothing was sent.
C4_Witness ==
  /\ variant = "master"
  /\ ws["A"] = "OPEN"
  /\ delivered["A"] # <<>>
  /\ kept["A"] = <<>>
  /\ flushTimer["A"] = 0
  /\ out["A"] = <<>>

\* C5: exit-code mapping.  In every bridge, after the program's exit with
\* code C the connection has been closed once, with reason exit:C, and with
\* reason exit:0 when the code is absent.
C5_ExitReason ==
  \A s \in Sessions :
    exitCode[s] # "none" =>
      /\ Len(SelectSeq(out[s], IsClose)) = 1
      /\ SelectSeq(out[s], IsClose)[1].data =
           <<"exit:", IF exitCode[s] = "null" THEN "0" ELSE exitCode[s]>>

\* C6: tagged content.  A line that matches no decorative pattern and whose
\* trimmed form starts with the marker and a space is kept as one text: the
\* trimmed line without the marker and the space after it (or without all the
\* white space after it), so that the marker that tagged the line is not at
\* the start of the kept text.
C6_TaggedContent ==
  (phase = "done" /\ ~isDecorative(line) /\ isAssistantLine(line))
    => /\ Len(pushed) = 1
       /\ pushed[1] \in {Drop(Trim(line), 2), TrimStart(Drop(Trim(line), 1))}

\* C7 as claimed: a line whose trimmed form begins with a run of HR of any
\* length is dropped.
C7_AnyRunDropped ==
  (phase = "done" /\ Trim(line) # <<>> /\ Head(Trim(line)) = HR)
    => pushed = <<>>

\* C7 as amended: a line whose trimmed form begins with a run of at least
\* RulerLen (16) HR is dropped; a line that is only a shorter run of HR, the
\* 10-character one among them, is kept whole.
C7_RulerLines ==
  phase = "done" =>
    /\ StartsWith(Trim(line), Run(HR, RulerLen)) => pushed = <<>>
    /\ \A n \in 1..(RulerLen - 1) : line = Run(HR, n) => pushed = <<line>>

\* A ruler after leading white space, with text after it, was dropped.
C7_Witness ==
  /\ phase = "done"
  /\ line = <<SP>> \o Run(HR, RulerLen) \o <<"a">>
  /\ pushed = <<>>

\* C8: a line that matches a decorative pattern (spinner glyph and space at
\* its start, ruler, prompt hint, status verb, footer, blank) pushes nothing,
\* also when it starts with the marker and a space.
C8_DecorativeDropped ==
  (/\ phase = "done"
   /\ \/ isSpinnerLine(line)
      \/ isRulerLine(line)
      \/ isPromptHint(line)
      \/ isStatusVerb(line)
      \/ isWorkspaceFooter(line)
      \/ IsBlank(line))
    => pushed = <<>>

\* A status line that starts with the marker and a space was dropped.
C8_Witness ==
  /\ phase = "done"
  /\ line = <<MARK, SP, STATUS_UP>>
  /\ isAssistantLine(line)
  /\ pushed = <<>>

\* C9: order and exactly-once.  In the filtered bridge the lines of the
\* messages sent, in order, are a prefix of the lines kept, in order; and
\* while the connection is open the lines kept are exactly those sent followed
\* by those of the batch.
C9_OrderExactlyOnce ==
  \A s \in Sessions :
    variant = "master" =>
      /\ IsPrefix(SentLines(out[s]), kept[s])
      /\ ws[s] = "OPEN" => kept[s] = SentLines(out[s]) \o buffer[s]

\* Two messages left and a third line waits in the batch.
C9_Witness ==
  /\ variant = "master"
  /\ ws["A"] = "OPEN"
  /\ Len(Sends(out["A"])) = 2
  /\ buffer["A"] # <<>>
  /\ Len(kept["A"]) = 3

\* Everything of one session.
SessionState(s) ==
  <<todo[s], inbox[s], ws[s], proc[s], exitCode[s], buffer[s], flushTimer[s],
    armed[s], out[s], written[s], kills[s], delivered[s], kept[s]>>

\* l is a contiguous piece of text.
IsPiece(l, text) ==
  \E i \in 0..(Len(text) - Len(l)) : SubSeq(text, i + 1, i + Len(l)) = l

\* C10: session isolation.  With two connections, every step changes the
\* state of at most one session (a timer expiry, a teardown, an input or an
\* output of A leaves B's batch, timer, calls and writes as they were), and
\* every line of a message sent on a connection is a piece of the output of
\* that connection's own program, and every write to a program is a message
\* of its own client, CR added.
C10_Isolation ==
  [][/\ \A s, t \in Sessions :
          (s # t /\ SessionState(s)' # SessionState(s))
            => SessionState(t)' = SessionState(t)
     /\ \A s \in Sessions :
          /\ \A i \in 1..Len(SentLines(out'[s])) :
                /\ IsPiece(SentLines(out'[s])[i], delivered'[s])
                /\ \A j \in 1..Len(SentLines(out'[s])[i]) :
                      SentLines(out'[s])[i][j] = OwnChar[s]
          /\ \A i \in 1..Len(written'[s]) :
                written'[s][i] = <<OwnChar[s], CR>>]_vars

\* Both sessions of the filtered bridge have sent their own program's line,
\* and A's input went to A's program only.
C10_Witness ==
  /\ variant = "master"
  /\ out["A"] = <<Send("stdout", <<"a">>)>>
  /\ out["B"] = <<Send("stdout", <<"m">>)>>
  /\ written["A"] = << <<"a", CR>> >>
  /\ written["B"] = << <<"m", CR>> >>

\* The input terminator of the running server: '\r' to a PTY, '\n' to a pipe.
Terminator == IF variant = "clean_js" THEN LF ELSE CR

\* C11: every message received is written to the program exactly once, as the
\* message followed by the input terminator, after the writes of the messages
\* received before it; the step leaves the pending batch and the debounce
\* timer as they were, and no other step writes to the program.
C11_InputRelay ==
  [][\A s \in Sessions :
       IF inbox'[s] # inbox[s]
       THEN /\ inbox'[s] = Tail(inbox[s])
            /\ written'[s] = Append(written[s], Head(inbox[s]) \o <<Terminator>>)
            /\ buffer'[s] = buffer[s]
            /\ flushTimer'[s] = flushTimer[s]
            /\ armed'[s] = armed[s]
       ELSE written'[s] = written[s]]_vars

\* Two different messages were relayed, in order, while a batch was pending
\* and its timer scheduled.
C11_Witness ==
  /\ variant = "master"
  /\ written["A"] = << <<"m", SP, CR>>, <<"a", CR>> >>
  /\ buffer["A"] = << <<"a">> >>
  /\ armed["A"] # {}

\* C12: in the filtered bridge, once ws.close() has been called after the
\* program's exit, or the connection has closed, no step (chunk, timer expiry,
\* exit) calls ws.send on that connection.
C12_NoSendAfterClosure ==
  [][\A s \in Sessions :
       (variant = "master" /\ ws[s] \in {"CLOSING", "CLOSED"})
         => Sends(out'[s]) = Sends(out[s])]_vars

\* The connection closed first; the program then emitted a line, the timer
\* that chunk armed has fired, and the line was not sent.
C12_Witness ==
  /\ variant = "master"
  /\ ws["A"] = "CLOSED"
  /\ proc["A"] = "running"
  /\ kept["A"] = << <<"a">> >>
  /\ buffer["A"] = <<>>
  /\ flushTimer["A"] = 0
  /\ out["A"] = <<>>

\* s holds a character of a CSI sequence that no plain text of AnsiChars holds.
HasSequenceChar(s) == \E i \in 1..Len(s) : s[i] \in {ESC, "["}

\* The stripper of the running server applied to a text in one call.
StripWhole(s) == IF variant = "clean_js" THEN stripAnsiRegex(s) ELSE stripAnsi(s)

\* C13: in the stripping bridges, when every ESC and every "[" of the output
\* delivered so far belongs to a complete control sequence (stripping the
\* output in one call leaves none of them), no outbound message holds an ESC
\* or a "[", however the output was cut into chunks.
C13_NoPartialSequence ==
  \A s \in Sessions :
    (variant # "raw" /\ ~HasSequenceChar(StripWhole(delivered[s])))
      => \A i \in 1..Len(out[s]) :
           IsSend(out[s][i]) => ~HasSequenceChar(out[s][i].data)

\* The size the batch is claimed never to exceed.
BatchLimit == 2

\* C14: the pending batch of the filtered bridge never holds more than
\* BatchLimit lines: output beyond it forces a flush before the timer expires.
C14_BoundedBatch ==
  \A s \in Sessions : variant = "master" => Len(buffer[s]) <= BatchLimit

\* C15: the regex stripper is idempotent: stripping a stripped text gives the
\* stripped text.
C15_Idempotence == phase = "again" => twice = once

\* A text whose sequence is broken by a control byte: ESC and LF are removed,
\* "[a" is left, and the second pass leaves it too.
C15_Witness ==
  /\ phase = "again"
  /\ input = <<ESC, "[", LF, "a">>
  /\ once = <<"[", "a">>
  /\ twice = <<"[", "a">>

\* The number of line feeds in s.
CountLF(s) == Cardinality({i \in 1..Len(s) : s[i] = LF})

\* C16: the regex stripper leaves line feeds in place: a text with no ESC, so
\* with no control sequence a line feed could be inside, keeps all its line
\* feeds.
C16_KeepsLineFeeds ==
  (phase # "text" /\ \A i \in 1..Len(input) : input[i] # ESC)
    => CountLF(once) = CountLF(input)

\* C17: in the filtered bridge, once the connection has closed no debounce
\* timer is scheduled, whatever happens after the close (a chunk from the
\* program that has not exited yet, the program's exit).
C17_NoTimerAfterClose ==
  \A s \in Sessions : (variant = "master" /\ ws[s] = "CLOSED") => armed[s] = {}

\* The chunk a data step of s hands to the handler.
Chunk(s) == Drop(delivered'[s], Len(delivered[s]))

\* C18: in the filtered bridge at most one timeout is scheduled per session,
\* and it is the one flushTimer holds; a chunk arriving while it is scheduled
\* leaves the handle and the timeout as they are (the same Timeout object, so
\* the same deadline) and only pushes its lines to the batch; the expiry
\* clears the handle, and a chunk arriving with the handle cleared sets one
\* new timeout.
C18_SingleShotTimer ==
  /\ [](\A s \in Sessions :
          variant = "master" =>
            /\ Cardinality(armed[s]) <= 1
            /\ armed[s] \subseteq {flushTimer[s]} \ {0})
  /\ [][\A s \in Sessions :
          variant = "master" =>
            /\ (delivered'[s] # delivered[s] /\ armed[s] # {})
                 => /\ flushTimer'[s] = flushTimer[s]
                    /\ armed'[s] = armed[s]
                    /\ buffer'[s] =
                         ProcessLines(buffer[s], Split(normalize(Chunk(s))))
            /\ (armed'[s] # armed[s] /\ armed'[s] = {} /\ ws'[s] = ws[s])
                 => flushTimer'[s] = 0
            /\ (delivered'[s] # delivered[s] /\ flushTimer[s] = 0)
                 => /\ flushTimer'[s] # 0
                    /\ armed'[s] = {flushTimer'[s]}]_vars

\* The first chunk set a timeout, the second arrived while it was scheduled,
\* it expired and sent both lines, and the third chunk set a new timeout.
C18_Witness ==
  /\ variant = "master"
  /\ delivered["A"] = <<"a", "a", "a">>
  /\ out["A"] = <<Send("stdout", <<"a", LF, "a">>)>>
  /\ buffer["A"] = << <<"a">> >>
  /\ flushTimer["A"] = 3
  /\ armed["A"] = {3}

\* C19: kill('SIGTERM') is called only on a program that has not exited: a
\* connection close that follows the program's exit calls no kill.
C19_KillOnlyLive ==
  \A s \in Sessions : \A i \in 1..Len(kills[s]) : kills[s][i] = "running"

\* C20: in the filtered bridge, after the connection has closed the program
\* eventually has exited, whether or not it reacts to SIGTERM.
C20_TeardownCompletes ==
  \A s \in Sessions :
    (variant = "master" /\ ws[s] = "CLOSED") ~> (proc[s] = "exited")

\* C21: in the filtered bridge, after every handler, an open connection with
\* the program running and a non-empty batch has a timeout scheduled; and,
\* the scheduled timeout firing, a non-empty batch on an open connection
\* leads to all kept lines sent, or to the connection no longer open.
C21_PendingHasFlush ==
  /\ [](\A s \in Sessions :
          (variant = "master" /\ ws[s] = "OPEN" /\ proc[s] = "running"
             /\ buffer[s] # <<>>)
            => armed[s] # {})
  /\ \A s \in Sessions :
       (variant = "master" /\ ws[s] = "OPEN" /\ buffer[s] # <<>>)
         ~> (ws[s] # "OPEN" \/ SentLines(out[s]) = kept[s])

\* A first batch was sent at the expiry; a later chunk filled the batch again
\* and a new timeout is scheduled for it.
C21_Witness ==
  /\ variant = "master"
  /\ ws["A"] = "OPEN"
  /\ proc["A"] = "running"
  /\ out["A"] = <<Send("stdout", <<"a">>)>>
  /\ buffer["A"] = << <<"a">> >>
  /\ armed["A"] = {3}

\* C22: once the exit of the program has been handled, no step writes to the
\* program: a message arriving on the closing connection is not relayed.
C22_NoWriteAfterExit ==
  [][\A s \in Sessions :
       proc[s] = "exited" => written'[s] = written[s]]_vars

====
